---- MODULE Spec2Model ----
(***************************************************************************)
(* The consensus loop of src/main.rs: the Coordinator actor (registry,     *)
(* current question, answer, feedback tally, evaluation count), the        *)
(* LlmActor responders whose handlers spawn completion calls that later    *)
(* send a message back to the Coordinator, and the driver loop of main.    *)
(*                                                                         *)
(* Actix delivers one message at a time to an actor, so every Coordinator  *)
(* handler is one atomic action.  A completion call spawned by an LlmActor *)
(* returns after an arbitrary delay, so replies reach the Coordinator in   *)
(* any order: a call stays in calls until the Coordinator has handled the  *)
(* message it sends, and a reply is handled in the step that removes its   *)
(* call.  A panic inside a Coordinator handler ends the actor: the         *)
(* assignments made before the panic are kept in the model and alive       *)
(* becomes FALSE, after which nothing is handled any more.                 *)
(***************************************************************************)
EXTENDS Bags, FiniteSets, Integers, Sequences, TLC

\* ------------------------------------------------------------------ bounds
MaxResponders == 2
MaxQuestions == 1
MaxTexts == 2
MaxInFlight == 1
MaxCountAtAsk == 6
MaxEagerAsks == 2

\* The cap on evaluation rounds ("if self.evaluation_count < 5").
MaxEvaluations == 5

\* ------------------------------------------------------------ value spaces
\* Responder names (main registers four named actors; the model names them
\* 1..MaxResponders, the registered key and the actor's own name being equal
\* as in main).
Names == 1..MaxResponders

QuestionOf == <<"Q1", "Q2", "Q3">>
Questions == {QuestionOf[i] : i \in 1..MaxQuestions}

TextOf == <<"42", "43", "44", "45">>
Texts == {TextOf[i] : i \in 1..MaxTexts}

\* Option<String>
None == <<>>
Some(t) == <<t>>

\* enum Feedback
Good == "Good"
NeedsRefinement == "NeedsRefinement"

\* The text GetAnswer returns when no answer is stored.
Sentinel == "System error: Requested answer when answer was not ready."

VARIABLES
    \* Coordinator
    llm_actors,         \* keys of the registry HashMap<String, Addr<LlmActor>>
    current_question,   \* Option<String>
    feedback,           \* HashMap<String, Feedback>, a function on the names that voted
    answer,             \* Option<String>
    evaluation_count,   \* u32
    alive,              \* the Coordinator actor is running (no handler has panicked)
    \* responders and messages
    calls,              \* bag of completion calls spawned by LlmActor handlers whose
                        \* message the Coordinator has not handled yet
    \* driver (main)
    pc,                 \* position in main; "free" for a client that sends its
                        \* requests in any order
    question_received,  \* value returned by AskQuestion
    answer_ready,       \* value returned by AnswerReadinessRequest
    response,           \* value returned by GetAnswer
    \* history
    rounds,             \* evaluation broadcasts since the last Reset
    evaluated,          \* Option: the answer text carried by the latest broadcast
    received,           \* Option: the latest text received by the Coordinator
    readyBy,            \* the message whose handling made readiness true
    failed,             \* a completion call failed since the last Reset
    idle,               \* no AskQuestion since Init or the last Reset
    earlier,            \* bag of the pending calls that were already pending when
                        \* the latest AskQuestion was handled
    staleBy,            \* the message of a call in earlier that the Coordinator
                        \* handled since the latest AskQuestion ("none" if none)
    anomaly             \* the latest step was an evaluation that wrote the error
                        \* log "Unexpected response from EvaluateAnswer"

coord == <<llm_actors, current_question, feedback, answer, evaluation_count>>
round == <<current_question, feedback, answer, evaluation_count>>
driver == <<pc, question_received, answer_ready, response>>
history == <<rounds, evaluated, received, readyBy, failed, idle, earlier, staleBy, anomaly>>
vars == <<llm_actors, current_question, feedback, answer, evaluation_count, alive,
          calls, pc, question_received, answer_ready, response,
          rounds, evaluated, received, readyBy, failed, idle, earlier, staleBy,
          anomaly>>

\* ------------------------------------------------------- messages and calls
\* A completion call spawned by an LlmActor handler, with the payload of the
\* request that caused it.
AskCall(n, q) == [kind |-> "AskQuestion", name |-> n, question |-> q, answer |-> ""]
EvaluateCall(n, q, a) == [kind |-> "EvaluateAnswer", name |-> n, question |-> q, answer |-> a]
RefineCall(n, q, a) == [kind |-> "RefineAnswer", name |-> n, question |-> q, answer |-> a]

One(x) == SetToBag({x})
InFlight == BagCardinality(calls)

\* A broadcast that sends every request twice.
BroadcastTwice(q, a) ==
    SetToBag({EvaluateCall(n, q, a) : n \in llm_actors}) (+)
    SetToBag({EvaluateCall(n, q, a) : n \in llm_actors})

\* llm_actors.values().for_each(|addr| addr.do_send(EvaluateAnswer{..}))
Broadcast(q, a) == SetToBag({EvaluateCall(n, q, a) : n \in llm_actors})

\* ------------------------------------------------- LlmActor: EvaluateAnswer
\* Completion texts are sequences of characters.
GoodToken == <<"G", "o", "o", "d">>
NeedsRefinementToken ==
    <<"N", "e", "e", "d", "s", "R", "e", "f", "i", "n", "e", "m", "e", "n", "t">>

\* result.split("\n")
RECURSIVE Split(_)
Split(s) ==
    IF \A i \in 1..Len(s) : s[i] # "\n"
    THEN <<s>>
    ELSE LET i == CHOOSE k \in 1..Len(s) : s[k] = "\n" /\ \A j \in 1..(k - 1) : s[j] # "\n"
         IN <<SubSeq(s, 1, i - 1)>> \o Split(SubSeq(s, i + 1, Len(s)))

IsNonEmpty(line) == line # <<>>
IsNotSpace(c) == c # " "

\* result.split("\n").filter(|s| !s.is_empty()).collect()
ResultParts(result) == SelectSeq(Split(result), IsNonEmpty)

\* result_parts[0].replace(" ", ""); indexing an empty Vec panics, and then
\* no message is sent.
Usable(result) == ResultParts(result) # <<>>
CleanedResult(result) == SelectSeq(ResultParts(result)[1], IsNotSpace)

\* A match whose "_" arm accepts.
ParseLenient(result) ==
    CASE CleanedResult(result) = GoodToken -> Good
      [] CleanedResult(result) = NeedsRefinementToken -> NeedsRefinement
      [] OTHER -> Good

\* match cleaned_result.as_str() { "Good" => .., "NeedsRefinement" => .., _ => .. }
ParseEvaluation(result) ==
    CASE CleanedResult(result) = GoodToken -> Good
      [] CleanedResult(result) = NeedsRefinementToken -> NeedsRefinement
      [] OTHER -> NeedsRefinement

\* The "_" arm, which writes the error log.
Anomalous(result) == CleanedResult(result) \notin {GoodToken, NeedsRefinementToken}

\* Texts the completion service may return to an evaluation prompt.
EvalCompletions ==
    { <<"\n", " ">> \o GoodToken \o <<" ", "\n", "o", "k">>,
      <<"N", "e", "e", "d", "s", " ", "R", "e", "f", "i", "n", "e", "m", "e", "n", "t", "\n", "n", "o">>,
      GoodToken \o <<".">>,
      <<"g", "o", "o", "d">>,
      NeedsRefinementToken \o <<"\n">> \o GoodToken,
      <<"\n", "\n">>,
      <<>> }

\* What the execution spawned for an evaluation does with each of these
\* texts: whether it reaches do_send, the verdict it sends, whether it logs.
UsableTexts == {r \in EvalCompletions : Usable(r)}
VerdictOf == [r \in UsableTexts |-> ParseEvaluation(r)]
AnomalyOf == [r \in UsableTexts |-> Anomalous(r)]

\* ---------------------------------------------------- Coordinator: helpers
\* A choice that always takes the first key.
ChooseFirst(keys) == {k \in keys : \A j \in keys : k <= j}

\* keys.choose(&mut rand::thread_rng()): the values the choice can return
\* (none when keys is empty, and then expect() panics).
ChooseActor(keys) == keys

ChooseRejecter(keys) == keys

\* An answer that is stored only when none is stored yet.
StoreFirst(old, text) == IF old = None THEN Some(text) ELSE old

\* self.answer = Some(msg.0.clone())
StoreAnswer(old, text) == Some(text)

\* self.feedback.insert(msg.name, msg.evaluation)
Insert(fb, n, v) == [k \in DOMAIN fb \cup {n} |-> IF k = n THEN v ELSE fb[k]]

\* self.feedback.values().all(|&f| f == Feedback::Good)
AllGood(fb) == \A k \in DOMAIN fb : fb[k] = Good

\* the keys of feedback whose value is NeedsRefinement
Rejecters(fb) == {k \in DOMAIN fb : fb[k] = NeedsRefinement}

\* The cap compared with <= instead of <.
CanReevaluateOffByOne(count) == count <= MaxEvaluations

\* if self.evaluation_count < 5
CanReevaluate(count) == count < MaxEvaluations

\* A cap that leaves the votes as they are.
ForceNothing(fb) == fb

\* self.feedback.iter_mut().for_each(|(_, value)| *value = Feedback::Good)
ForceGood(fb) == [k \in DOMAIN fb |-> Good]

\* Readiness without the comparison of the two lengths.
AnswerReadyNoCount(ans, fb, actors) ==
    /\ ans # None
    /\ DOMAIN fb # {}
    /\ \A k \in DOMAIN fb : fb[k] = Good

\* Readiness with any() in place of all().
AnswerReadyAny(ans, fb, actors) ==
    /\ ans # None
    /\ DOMAIN fb # {}
    /\ Cardinality(DOMAIN fb) = Cardinality(actors)
    /\ \E k \in DOMAIN fb : fb[k] = Good

\* The expression of Handler<AnswerReadinessRequest>.
AnswerReady(ans, fb, actors) ==
    /\ ans # None
    /\ DOMAIN fb # {}
    /\ Cardinality(DOMAIN fb) = Cardinality(actors)
    /\ \A k \in DOMAIN fb : fb[k] = Good

\* GetAnswer with an empty text in place of the sentinel.
GetAnswerOrEmpty(ans) == IF ans # None THEN ans[1] ELSE ""

\* The value of Handler<GetAnswer>.
GetAnswerResult(ans) == IF ans # None THEN ans[1] ELSE Sentinel

\* Coordinator::reset on the Coordinator's fields.
CoordinatorState ==
    [llm_actors |-> llm_actors, current_question |-> current_question,
     feedback |-> feedback, answer |-> answer, evaluation_count |-> evaluation_count]

\* A reset that forgets feedback.clear().
resetKeepFeedback(s) ==
    [s EXCEPT !.current_question = None, !.answer = None, !.evaluation_count = 0]

reset(s) ==
    [s EXCEPT !.current_question = None, !.answer = None,
              !.feedback = <<>>, !.evaluation_count = 0]

\* ---------------------------------------------------- Coordinator: handlers
\* Each handler gives the Coordinator's fields, alive and calls their next
\* values.  The handlers of the responders' messages take rest, the calls
\* still pending beside the one whose message is handled.
\* A Register that asks the new responder to evaluate the stored answer.
RegisterAndEvaluate(n) ==
    /\ llm_actors' = llm_actors \cup {n}
    /\ calls' = IF current_question # None /\ answer # None /\ n \notin llm_actors
                THEN calls (+) One(EvaluateCall(n, current_question[1], answer[1]))
                ELSE calls
    /\ UNCHANGED <<round, alive>>

RegisterHandler(n) ==
    /\ llm_actors' = llm_actors \cup {n}
    /\ UNCHANGED <<round, alive, calls>>

AskQuestionHandler(q) ==
    /\ current_question' = Some(q)
    /\ UNCHANGED <<llm_actors, feedback, answer, evaluation_count>>
    /\ IF ChooseActor(llm_actors) = {}
       THEN \* expect("choose() should select a random key") panics
            /\ alive' = FALSE
            /\ UNCHANGED <<calls, question_received>>
       ELSE \E n \in ChooseActor(llm_actors) :
            /\ alive' = alive
            /\ IF n \in llm_actors
               THEN calls' = calls (+) One(AskCall(n, q)) /\ question_received' = TRUE
               ELSE calls' = calls /\ question_received' = FALSE

AnswerQuestionHandler(t, rest) ==
    /\ answer' = StoreAnswer(answer, t)
    /\ UNCHANGED <<llm_actors, current_question, feedback>>
    /\ IF current_question = None
       THEN IF llm_actors = {}
            THEN evaluation_count' = evaluation_count + 1 /\ alive' = alive /\ calls' = rest
            ELSE \* expect("current_question should exist") panics
                 alive' = FALSE /\ evaluation_count' = evaluation_count /\ calls' = rest
       ELSE /\ calls' = rest (+) Broadcast(current_question[1], t)
            /\ evaluation_count' = evaluation_count + 1
            /\ alive' = alive

AnswerEvaluationHandler(n, v, rest) ==
    LET fb == Insert(feedback, n, v) IN
    /\ feedback' = fb
    /\ UNCHANGED <<llm_actors, current_question, answer, evaluation_count>>
    /\ IF Cardinality(DOMAIN fb) = Cardinality(llm_actors) /\ ~AllGood(fb)
       THEN IF \/ ChooseRejecter(Rejecters(fb)) = {}
               \/ current_question = None
               \/ answer = None
            THEN \* one of the three expect() calls panics
                 alive' = FALSE /\ calls' = rest
            ELSE \E k \in ChooseRejecter(Rejecters(fb)) :
                 /\ alive' = alive
                 /\ calls' = IF k \in llm_actors
                             THEN rest (+) One(RefineCall(k, current_question[1], answer[1]))
                             ELSE rest
       ELSE alive' = alive /\ calls' = rest

AnswerRefinementHandler(t, rest) ==
    /\ answer' = StoreAnswer(answer, t)
    /\ UNCHANGED <<llm_actors, current_question>>
    /\ IF CanReevaluate(evaluation_count)
       THEN /\ evaluation_count' = evaluation_count + 1
            /\ feedback' = <<>>
            /\ IF current_question = None
               THEN IF llm_actors = {}
                    THEN alive' = alive /\ calls' = rest
                    ELSE \* expect("current_question should exist") panics
                         alive' = FALSE /\ calls' = rest
               ELSE /\ calls' = rest (+) Broadcast(current_question[1], t)
                    /\ alive' = alive
       ELSE /\ feedback' = ForceGood(feedback)
            /\ evaluation_count' = evaluation_count
            /\ alive' = alive
            /\ calls' = rest

AnswerReadinessRequestHandler ==
    /\ answer_ready' = AnswerReady(answer, feedback, llm_actors)
    /\ UNCHANGED <<coord, alive, calls>>

GetAnswerHandler ==
    /\ response' = GetAnswerResult(answer)
    /\ UNCHANGED <<coord, alive, calls>>

ResetHandler ==
    LET s == reset(CoordinatorState) IN
    /\ llm_actors' = s.llm_actors
    /\ current_question' = s.current_question
    /\ feedback' = s.feedback
    /\ answer' = s.answer
    /\ evaluation_count' = s.evaluation_count
    /\ UNCHANGED <<alive, calls>>

\* ------------------------------------------------------------------ history
\* The EvaluateAnswer calls a step adds.
NewEvaluations == {c \in BagToSet(calls' (-) calls) : c.kind = "EvaluateAnswer"}

\* The history variables after a step that handled message op (with text t,
\* for the two messages that carry an answer text).
Observe(op, t) ==
    /\ idle' = IF op = "Reset" THEN TRUE
               ELSE IF op = "AskQuestion" THEN FALSE ELSE idle
    /\ rounds' = IF op = "Reset" THEN 0
                 ELSE IF NewEvaluations # {} THEN rounds + 1 ELSE rounds
    /\ evaluated' = IF op = "Reset" THEN None
                    ELSE IF NewEvaluations # {}
                         THEN Some((CHOOSE c \in NewEvaluations : TRUE).answer)
                         ELSE evaluated
    /\ received' = IF op = "Reset" THEN None
                   ELSE IF op \in {"AnswerQuestion", "AnswerRefinement"}
                        THEN Some(t) ELSE received
    /\ failed' = IF op = "Reset" THEN FALSE
                 ELSE IF op = "CallFails" THEN TRUE ELSE failed
    /\ readyBy' = IF AnswerReady(answer', feedback', llm_actors')
                  THEN IF AnswerReady(answer, feedback, llm_actors) THEN readyBy ELSE op
                  ELSE "none"
    /\ op \in {"Register", "AnswerReadinessRequest", "GetAnswer"} =>
           UNCHANGED <<earlier, staleBy>>
    /\ op = "AskQuestion" => earlier' = calls /\ staleBy' = "none"
    /\ op = "Reset" => earlier' = earlier /\ staleBy' = "none"
    /\ op # "AnswerEvaluation" => anomaly' = FALSE

\* The same after a step that ended call c: with the message op handled by
\* the Coordinator, or with the failure of the call.
ObserveCall(op, c) ==
    IF BagIn(c, earlier)
    THEN /\ earlier' = earlier (-) One(c)
         /\ staleBy' = IF op # "CallFails" /\ alive' THEN op ELSE staleBy
    ELSE UNCHANGED <<earlier, staleBy>>

\* ------------------------------------------------------------------ actions
\* main's locals question_received, answer_ready and response live to the end
\* of the iteration of its loop.  The free client keeps no locals: each of
\* the three holds the value the last step returned, if it returned one.
NoResult(v, initial) == IF pc = "free" THEN v' = initial ELSE v' = v

\* The positions of an eager driver: like main it registers its responders
\* first, but it sends its next AskQuestion, with or without a Reset before
\* it, without waiting for the answer to be ready.  EagerPc[k + 1] is its
\* position after k questions; a Reset is sent between two questions.
EagerPc == <<"eager0", "eager1", "eager2", "eager3", "eager4">>
Eager == {EagerPc[k] : k \in 1..(MaxEagerAsks + 1)}
EagerNext(p) == EagerPc[(CHOOSE k \in 1..MaxEagerAsks : EagerPc[k] = p) + 1]

\* Coordinator::default() and the start of main.
InitCommon ==
    /\ llm_actors = {}
    /\ current_question = None
    /\ feedback = <<>>
    /\ answer = None
    /\ evaluation_count = 0
    /\ alive = TRUE
    /\ calls = EmptyBag
    /\ question_received = FALSE
    /\ answer_ready = FALSE
    /\ response = ""
    /\ rounds = 0
    /\ evaluated = None
    /\ received = None
    /\ readyBy = "none"
    /\ failed = FALSE
    /\ idle = TRUE
    /\ earlier = EmptyBag
    /\ staleBy = "none"
    /\ anomaly = FALSE

\* Any client of the Coordinator: requests in any order.
Init == InitCommon /\ pc = "free"

\* main: register the actors, then loop ask / poll / get / reset.
InitDriver == InitCommon /\ pc = "register"

\* The eager driver.
InitEager == InitCommon /\ pc = EagerPc[1]

\* A Register message is handled.  main sends its Register messages before
\* its first AskQuestion, to the same mailbox.
RegisterOf(n) ==
    /\ alive
    /\ pc \in {"free", "register", EagerPc[1]}
    /\ pc # "free" => n = Cardinality(llm_actors) + 1
    /\ RegisterHandler(n)
    /\ \E next \in (IF pc # "register" THEN {pc}
                    ELSE IF n = MaxResponders THEN {"ask"} ELSE {"register", "ask"}) :
           pc' = next
    /\ NoResult(question_received, FALSE)
    /\ NoResult(answer_ready, FALSE)
    /\ NoResult(response, "")
    /\ Observe("Register", "")

Register == \E n \in Names : RegisterOf(n)

\* An AskQuestion message from the driver is handled; main then declares
\* answer_ready = false.
AskOf(q) ==
    /\ alive
    /\ pc \in {"free", "ask"} \cup (Eager \ {EagerPc[MaxEagerAsks + 1]})
    /\ pc = "free" => InFlight < MaxInFlight /\ evaluation_count < MaxCountAtAsk
    /\ AskQuestionHandler(q)
    /\ pc' = IF pc = "free" THEN "free"
             ELSE IF pc \in Eager THEN EagerNext(pc)
             ELSE IF ~alive' THEN "exit"
             ELSE IF question_received' THEN "poll" ELSE "reset"
    /\ answer_ready' = FALSE
    /\ NoResult(response, "")
    /\ Observe("AskQuestion", "")

Ask == \E q \in Questions : AskOf(q)

\* One iteration of main's poll loop: AnswerReadinessRequest is handled.
Poll ==
    /\ alive
    /\ pc \in {"free", "poll"}
    /\ AnswerReadinessRequestHandler
    /\ pc' = IF pc = "free" THEN "free" ELSE IF answer_ready' THEN "get" ELSE "poll"
    /\ NoResult(question_received, FALSE)
    /\ NoResult(response, "")
    /\ Observe("AnswerReadinessRequest", "")

\* A GetAnswer message is handled.
GetAnswer ==
    /\ alive
    /\ pc \in {"free", "get"}
    /\ GetAnswerHandler
    /\ pc' = IF pc = "free" THEN "free" ELSE "reset"
    /\ NoResult(question_received, FALSE)
    /\ NoResult(answer_ready, FALSE)
    /\ Observe("GetAnswer", "")

\* A Reset message is handled; the iteration of main's loop ends, and with it
\* its locals.
Reset ==
    /\ alive
    /\ pc \in {"free", "reset"} \cup (Eager \ {EagerPc[1], EagerPc[MaxEagerAsks + 1]})
    /\ ResetHandler
    /\ pc' = IF pc = "reset" THEN "ask" ELSE pc
    /\ question_received' = FALSE
    /\ answer_ready' = FALSE
    /\ response' = ""
    /\ Observe("Reset", "")

\* The completion call of an AskQuestion returns text t, and the Coordinator
\* handles the AnswerQuestion message sent with it.
Answered(c, t) ==
    /\ alive
    /\ BagIn(c, calls)
    /\ c.kind = "AskQuestion"
    /\ AnswerQuestionHandler(t, calls (-) One(c))
    /\ pc' = pc
    /\ NoResult(question_received, FALSE)
    /\ NoResult(answer_ready, FALSE)
    /\ NoResult(response, "")
    /\ Observe("AnswerQuestion", t)
    /\ ObserveCall("AnswerQuestion", c)

HandleAnswerQuestion == \E c \in BagToSet(calls) : \E t \in Texts : Answered(c, t)

\* The completion call of an EvaluateAnswer returns text r with a non-empty
\* line, and the Coordinator handles the AnswerEvaluation message sent with
\* the verdict parsed from it.
Evaluated(c, r) ==
    /\ alive
    /\ BagIn(c, calls)
    /\ c.kind = "EvaluateAnswer"
    /\ r \in UsableTexts
    /\ AnswerEvaluationHandler(c.name, VerdictOf[r], calls (-) One(c))
    /\ pc' = pc
    /\ NoResult(question_received, FALSE)
    /\ NoResult(answer_ready, FALSE)
    /\ NoResult(response, "")
    /\ Observe("AnswerEvaluation", "")
    /\ ObserveCall("AnswerEvaluation", c)
    /\ anomaly' = AnomalyOf[r]

HandleAnswerEvaluation ==
    \E c \in BagToSet(calls) : \E r \in EvalCompletions : Evaluated(c, r)

\* The completion call of a RefineAnswer returns text t, and the Coordinator
\* handles the AnswerRefinement message sent with it.
Revised(c, t) ==
    /\ alive
    /\ BagIn(c, calls)
    /\ c.kind = "RefineAnswer"
    /\ AnswerRefinementHandler(t, calls (-) One(c))
    /\ pc' = pc
    /\ NoResult(question_received, FALSE)
    /\ NoResult(answer_ready, FALSE)
    /\ NoResult(response, "")
    /\ Observe("AnswerRefinement", t)
    /\ ObserveCall("AnswerRefinement", c)

HandleAnswerRefinement == \E c \in BagToSet(calls) : \E t \in Texts : Revised(c, t)

\* A spawned execution panics (the completion call fails, the response holds
\* no text, or the evaluation text has no non-empty line): no message is sent.
Fails(c) ==
    /\ alive
    /\ BagIn(c, calls)
    /\ calls' = calls (-) One(c)
    /\ UNCHANGED <<coord, alive, pc>>
    /\ NoResult(question_received, FALSE)
    /\ NoResult(answer_ready, FALSE)
    /\ NoResult(response, "")
    /\ Observe("CallFails", "")
    /\ ObserveCall("CallFails", c)

CallFails == \E c \in BagToSet(calls) : Fails(c)

\* ----------------------------------------------------------- specifications
NextReliable ==
    \/ Register
    \/ Ask
    \/ Poll
    \/ GetAnswer
    \/ Reset
    \/ HandleAnswerQuestion
    \/ HandleAnswerEvaluation
    \/ HandleAnswerRefinement

Next ==
    \/ NextReliable
    \/ CallFails

\* Any client, completion calls may fail.
Spec == Init /\ [][Next]_vars

\* main's driver, every completion call returns.
SpecDriver == InitDriver /\ [][NextReliable]_vars

\* main's driver, completion calls may fail.
SpecDriverFail == InitDriver /\ [][Next]_vars

\* main's driver or the eager driver, every completion call returns.
SpecEager == (InitDriver \/ InitEager) /\ [][NextReliable]_vars

\* main's driver, which keeps polling; every completion call returns and the
\* message it sends is handled.
SpecDriverFair ==
    /\ InitDriver
    /\ [][NextReliable]_vars
    /\ WF_vars(Poll)
    /\ WF_vars(HandleAnswerQuestion)
    /\ WF_vars(HandleAnswerEvaluation)
    /\ WF_vars(HandleAnswerRefinement)

\* ------------------------------------------------------------------- claims
\* Readiness as the specification words it: an answer exists, votes is
\* non-empty, every registered responder has a recorded vote, and every
\* recorded vote is Accept.
ReadyCond ==
    /\ answer # None
    /\ DOMAIN feedback # {}
    /\ \A n \in llm_actors : n \in DOMAIN feedback
    /\ \A n \in DOMAIN feedback : feedback[n] = Good

\* C1: handling ReadinessQuery returns true iff an answer exists, votes is
\* non-empty, every registered responder has a recorded vote and every
\* recorded vote is Accept; and it leaves the registry, current_question,
\* current_answer, votes and round_count unchanged.
C1_ReadinessQuery ==
    [][Poll => /\ answer_ready' <=> ReadyCond
               /\ UNCHANGED <<llm_actors, current_question, answer, feedback,
                              evaluation_count>>]_vars

\* C1 witness: a readiness query has returned true with two responders.
C1_Witness ==
    /\ pc = "free"
    /\ answer_ready
    /\ ReadyCond
    /\ Cardinality(llm_actors) = 2

\* C2: when every completed round holds a Reject, a Revised message handled
\* before the 5th broadcast starts the next evaluation round; the one handled
\* after the 5th broadcast is not broadcast again, sets every entry of votes
\* to Accept, leaves nothing in flight and makes readiness true, so that the
\* next ReadinessQuery returns true; no 6th round is ever broadcast.
C2_RoundCap ==
    /\ [][(\E c \in BagToSet(calls) : \E t \in Texts : Revised(c, t)) =>
            IF rounds < 5
            THEN /\ rounds' = rounds + 1
                 /\ \A n \in llm_actors :
                        \E c \in BagToSet(calls') : c.kind = "EvaluateAnswer" /\ c.name = n
            ELSE /\ rounds = 5
                 /\ rounds' = 5
                 /\ calls' = EmptyBag
                 /\ DOMAIN feedback' = DOMAIN feedback
                 /\ \A n \in DOMAIN feedback' : feedback'[n] = Good
                 /\ ReadyCond']_vars
    /\ [][(Poll /\ readyBy = "AnswerRefinement") => answer_ready']_vars
    /\ [](rounds <= 5)

\* C2 witness: the readiness query after the forced acceptance that followed
\* five rounds has returned true.
C2_Witness ==
    /\ rounds = 5
    /\ readyBy = "AnswerRefinement"
    /\ answer_ready
    /\ pc = "get"
    /\ Cardinality(llm_actors) = 2

\* C3: under the driver discipline, with every completion call returning and
\* its message handled, every accepted Submit is followed by a state in which
\* ReadinessQuery has returned true.
C3_Terminates == (pc = "poll" /\ question_received) ~> (answer_ready /\ ReadyCond)

\* C3 witness: a readiness query has returned true after at least one
\* revision.
C3_Witness ==
    /\ pc = "get"
    /\ question_received
    /\ answer_ready
    /\ rounds >= 2

\* C4: Submit on an empty registry returns false and changes no Coordinator
\* state, and no request is sent to any responder.
C4_EmptyRegistrySubmit ==
    [][\A q \in Questions :
          (AskOf(q) /\ llm_actors = {}) =>
              /\ alive'
              /\ question_received' = FALSE
              /\ UNCHANGED <<current_question, answer, feedback, evaluation_count>>
              /\ calls' = calls]_vars

\* C5: with a registry of size >= 1, Submit(question) records
\* current_question = question, sends exactly one answer request carrying the
\* question to one registered responder and returns true; and every
\* registered responder is a possible choice.
C5_Submit ==
    /\ [][\A q \in Questions :
            (AskOf(q) /\ llm_actors # {}) =>
                /\ alive'
                /\ current_question' = Some(q)
                /\ question_received' = TRUE
                /\ \E n \in llm_actors : calls' = calls (+) One(AskCall(n, q))]_vars
    /\ [](\A q \in Questions : \A n \in llm_actors :
            (ENABLED AskOf(q)) =>
                ENABLED (AskOf(q) /\ calls' = calls (+) One(AskCall(n, q))))

\* C5 witness: with two registered responders the second one was chosen.
C5_Witness ==
    /\ llm_actors = {1, 2}
    /\ question_received
    /\ \E q \in Questions : current_question = Some(q) /\ calls = One(AskCall(2, q))

\* What a ReadinessQuery handled in the current state would return.
Ready == AnswerReady(answer, feedback, llm_actors)

VotesMissing == Cardinality(DOMAIN feedback) < Cardinality(llm_actors)
SomeReject == \E n \in DOMAIN feedback : feedback[n] = NeedsRefinement

\* The step that handles the Evaluated message of call c, carrying the last
\* missing vote, an Accept, after which every registered responder's vote is
\* Accept.
LastAccept(c, r) ==
    /\ Evaluated(c, r)
    /\ ParseEvaluation(r) = Good
    /\ c.name \notin DOMAIN feedback
    /\ DOMAIN feedback' = llm_actors
    /\ \A n \in llm_actors : feedback'[n] = Good

\* The step that handles a Revised message once the round cap is reached.
ForcedAccept(c, t) ==
    /\ Revised(c, t)
    /\ rounds >= 5

\* C6 as stated: readiness is false wherever a vote is missing or some vote
\* is Reject, and readiness changes from false to true only on handling the
\* Evaluated message that carries the last Accept vote of a unanimous round.
C6_OnlyLastAccept ==
    /\ []((VotesMissing \/ SomeReject) => ~Ready)
    /\ [][(~Ready /\ Ready') =>
            \E c \in BagToSet(calls) : \E r \in EvalCompletions : LastAccept(c, r)]_vars

\* C6 amended: readiness is false wherever a vote is missing or some vote is
\* Reject, and under the driver discipline readiness changes from false to
\* true only on handling the Evaluated message that carries the last Accept
\* vote of a unanimous round, or on handling the Revised message that
\* arrives once the round cap is reached and forces every vote to Accept.
C6_LastAcceptOrCap ==
    /\ []((VotesMissing \/ SomeReject) => ~Ready)
    /\ [][(~Ready /\ Ready') =>
            \/ \E c \in BagToSet(calls) : \E r \in EvalCompletions : LastAccept(c, r)
            \/ \E c \in BagToSet(calls) : \E t \in Texts : ForcedAccept(c, t)]_vars

\* C6 witness: readiness has become true by the forced acceptance, the votes
\* of two responders having been turned to Accept.
C6_Witness ==
    /\ Ready
    /\ readyBy = "AnswerRefinement"
    /\ rounds = 5
    /\ DOMAIN feedback = {1, 2}

\* C7: when readiness became true through a unanimous round, FetchAnswer
\* returns the text of the most recent answer or revision the Coordinator
\* received, which is the text broadcast in the evaluation round whose votes
\* are all Accept.
C7_FetchAfterUnanimous ==
    [][(GetAnswer /\ readyBy = "AnswerEvaluation") =>
          /\ received # None
          /\ response' = received[1]
          /\ evaluated = received
          /\ \A n \in llm_actors : n \in DOMAIN feedback /\ feedback[n] = Good]_vars

\* C7 witness: the scenario of the specification; the second round, on the
\* revision "43", was unanimous and FetchAnswer has returned "43".
C7_Witness ==
    /\ pc = "reset"
    /\ response = "43"
    /\ readyBy = "AnswerEvaluation"
    /\ rounds = 2
    /\ evaluated = Some("43")
    /\ llm_actors = {1, 2}

\* C8: in the Idle state ReadinessQuery returns false and FetchAnswer returns
\* the sentinel, which is no text of a responder; in every state FetchAnswer
\* returns current_answer when it is set, and it never changes the
\* Coordinator's state.
C8_FetchAnswer ==
    /\ [][GetAnswer =>
            /\ idle => response' = Sentinel
            /\ answer # None => response' = answer[1]
            /\ answer = None => response' = Sentinel
            /\ UNCHANGED <<llm_actors, current_question, answer, feedback,
                           evaluation_count>>]_vars
    /\ [][(Poll /\ idle) => answer_ready' = FALSE]_vars
    /\ [](Sentinel \notin Texts)

\* C8 witness: FetchAnswer has returned the sentinel in an Idle state that a
\* Reset in the middle of a round produced.
C8_Witness ==
    /\ idle
    /\ response = Sentinel
    /\ calls # EmptyBag
    /\ llm_actors # {}

\* C9: Reset sets current_question and current_answer to absent, votes to
\* empty and round_count to 0 and leaves the registry unchanged; no step
\* shrinks the registry; and a second Reset changes nothing more.
C9_Reset ==
    /\ [][Reset =>
            /\ current_question' = None
            /\ answer' = None
            /\ feedback' = <<>>
            /\ evaluation_count' = 0
            /\ llm_actors' = llm_actors]_vars
    /\ [][llm_actors \subseteq llm_actors']_vars
    /\ [](reset(reset(CoordinatorState)) = reset(CoordinatorState))
    /\ [][(Reset /\ current_question = None /\ answer = None /\ feedback = <<>>
             /\ evaluation_count = 0) => UNCHANGED coord]_vars

\* C9 witness: a Reset has cleared a round that had recorded votes, with
\* both responders registered and calls still pending.
C9_Witness ==
    /\ idle
    /\ llm_actors = {1, 2}
    /\ current_question = None
    /\ answer = None
    /\ feedback = <<>>
    /\ evaluation_count = 0
    /\ \E c \in BagToSet(calls) : c.kind = "RefineAnswer"

\* C10: once a completion call of the question has failed, readiness stays
\* false, a ReadinessQuery returns false, and the Coordinator sends no
\* further request: the round stalls.
C10_FailureStalls ==
    /\ [](failed => ~ReadyCond)
    /\ [][(Poll /\ failed) => answer_ready' = FALSE]_vars
    /\ [][failed =>
            /\ failed'
            /\ \A c \in BagToSet(calls') : CopiesIn(c, calls') <= CopiesIn(c, calls)]_vars

\* C10 witness: an evaluation call failed, the other responder's Accept was
\* recorded, nothing is pending and the driver polls.
C10_Witness ==
    /\ failed
    /\ pc = "poll"
    /\ calls = EmptyBag
    /\ answer # None
    /\ Cardinality(llm_actors) = 2
    /\ Cardinality(DOMAIN feedback) = 1
    /\ \A n \in DOMAIN feedback : feedback[n] = Good

\* C11: Evaluate turns the completion text into Accept only when its first
\* non-empty line, spaces removed, is exactly "Good"; the token
\* "NeedsRefinement" and every other first line give NeedsRefinement, which
\* is the verdict the Coordinator records for the responder, so a malformed
\* text is never recorded as Accept.
C11_EvaluateVerdict ==
    /\ [][\A c \in BagToSet(calls) : \A r \in EvalCompletions :
            Evaluated(c, r) =>
              /\ c.name \in DOMAIN feedback'
              /\ feedback'[c.name] = Good <=> CleanedResult(r) = GoodToken
              /\ feedback'[c.name] = NeedsRefinement <=> CleanedResult(r) # GoodToken
              /\ anomaly' => feedback'[c.name] = NeedsRefinement]_vars
    /\ [](/\ ParseEvaluation(<<"G", "o", "o", "d">>) = Good
          /\ ParseEvaluation(<<"\n", " ", "G", "o", " ", "o", "d", "\n", "N">>) = Good
          /\ ParseEvaluation(<<"N", "e", "e", "d", "s", "R", "e", "f", "i", "n", "e",
                               "m", "e", "n", "t">>) = NeedsRefinement
          /\ ParseEvaluation(<<"G", "o", "o", "d", ".">>) = NeedsRefinement
          /\ ParseEvaluation(<<"g", "o", "o", "d">>) = NeedsRefinement
          /\ ParseEvaluation(<<"G", "o", "o", "d", "\t">>) = NeedsRefinement
          /\ ParseEvaluation(<<"N", "o", "\n", "G", "o", "o", "d">>) = NeedsRefinement)

\* C11 witness: the second responder's evaluation text was neither token,
\* the error log was written, and its verdict is the only NeedsRefinement
\* among the two recorded.
C11_Witness ==
    /\ anomaly
    /\ alive
    /\ DOMAIN feedback = {1, 2}
    /\ Rejecters(feedback) = {2}

\* C12: in the state reached by handling the AnsweredQuestion(text) that
\* answers the latest Submit, the first one since the Coordinator was
\* constructed or Reset, votes is empty, current_answer is text,
\* round_count is one more than before, and one evaluation request carrying
\* the current question and text has been sent to every registered responder.
C12_AfterAnswered ==
    [][\A c \in BagToSet(calls) : \A t \in Texts :
          (Answered(c, t) /\ ~idle /\ rounds = 0 /\ ~BagIn(c, earlier)) =>
            /\ feedback' = <<>>
            /\ answer' = Some(t)
            /\ evaluation_count' = evaluation_count + 1
            /\ calls' = (calls (-) One(c)) (+) Broadcast(current_question[1], t)]_vars

\* C13: in every reachable state round_count is between 0 and the fixed
\* maximum of 5, whatever messages the Coordinator has handled.
C13_RoundCountBound == evaluation_count \in 0..MaxEvaluations

\* The requests a step sends beside ending call c.
Sent(c) == calls' (-) (calls (-) One(c))

\* C14: votes never holds a name that is not registered, so it never has
\* more entries than the registry; and the step that handles the Evaluated
\* message making len(votes) = len(registry) decides: either every vote is
\* Accept and nothing is sent, or exactly one revision request is sent.
C14_VotesAndDecision ==
    /\ [](DOMAIN feedback \subseteq llm_actors)
    /\ [](Cardinality(DOMAIN feedback) <= Cardinality(llm_actors))
    /\ [][\A c \in BagToSet(calls) : \A r \in EvalCompletions :
            (Evaluated(c, r) /\ Cardinality(DOMAIN feedback') = Cardinality(llm_actors')) =>
              \/ AllGood(feedback') /\ Sent(c) = EmptyBag
              \/ /\ ~AllGood(feedback')
                 /\ BagCardinality(Sent(c)) = 1
                 /\ \A k \in BagToSet(Sent(c)) : k.kind = "RefineAnswer"]_vars

\* C15: in every reachable state of the running Coordinator, replies still
\* pending after a Reset included, current_answer is set whenever votes is
\* non-empty.
C15_VotesImplyAnswer == (alive /\ DOMAIN feedback # {}) => answer # None

\* votes with verdict v entered for the responder of call c.
Tally(c, v) == Insert(feedback, c.name, v)

\* The round is complete and not unanimous.
Rejected(fb) == Cardinality(DOMAIN fb) = Cardinality(llm_actors) /\ ~AllGood(fb)

\* C16: a revision request is sent only by the step that handles the
\* Evaluated message completing a round that is not unanimous; it goes to a
\* registered responder whose recorded verdict is Reject and carries the
\* current question and the current answer; the set of rejecting names is
\* not empty then, each of them can be the one chosen, and nothing is sent
\* when every verdict is Accept.
C16_ReviserChoice ==
    /\ [][\A c \in BagToSet(calls) : \A r \in EvalCompletions :
            Evaluated(c, r) =>
              /\ \A k \in BagToSet(Sent(c)) :
                    /\ k.kind = "RefineAnswer"
                    /\ Sent(c) = One(k)
                    /\ Rejected(feedback')
                    /\ k.name \in llm_actors
                    /\ feedback'[k.name] = NeedsRefinement
                    /\ current_question = Some(k.question)
                    /\ answer = Some(k.answer)
              /\ Rejected(feedback') => Rejecters(feedback') # {}
              /\ AllGood(feedback') => Sent(c) = EmptyBag]_vars
    /\ [](\A c \in BagToSet(calls) : \A v \in {Good, NeedsRefinement} :
            (/\ alive /\ c.kind = "EvaluateAnswer"
             /\ current_question # None /\ answer # None
             /\ Rejected(Tally(c, v))) =>
               \A n \in Rejecters(Tally(c, v)) :
                  ENABLED (AnswerEvaluationHandler(c.name, v, calls (-) One(c)) /\
                           Sent(c) = One(RefineCall(n, current_question[1], answer[1]))))

\* C16 witness: both responders rejected the answer "42" and the second one
\* was sent the revision request.
C16_Witness ==
    /\ alive
    /\ DOMAIN feedback = {1, 2}
    /\ Rejecters(feedback) = {1, 2}
    /\ current_question # None
    /\ calls = One(RefineCall(2, current_question[1], "42"))

\* C17: a reply produced for an earlier question that is still pending when
\* the next Submit is handled can be handled after it, and is then recorded
\* in the new question's state (its verdict entered in votes, its text
\* stored as current_answer); under main's driver nothing is pending when a
\* Submit is handled, so no message of an earlier question is handled after
\* a later Submit.
C17_StaleReplies ==
    /\ [](\A c \in BagToSet(earlier) : \A v \in {Good, NeedsRefinement} :
            (alive /\ c.kind = "EvaluateAnswer") =>
               ENABLED (AnswerEvaluationHandler(c.name, v, calls (-) One(c))
                        /\ c.name \in DOMAIN feedback' /\ feedback'[c.name] = v))
    /\ [](\A c \in BagToSet(earlier) : \A t \in Texts :
            (alive /\ c.kind = "RefineAnswer") =>
               ENABLED (AnswerRefinementHandler(t, calls (-) One(c))
                        /\ answer' = Some(t)))
    /\ [][\A c \in BagToSet(earlier) : \A r \in UsableTexts :
            Evaluated(c, r) =>
               c.name \in DOMAIN feedback' /\ feedback'[c.name] = VerdictOf[r]]_vars
    /\ [][\A c \in BagToSet(earlier) : \A t \in Texts :
            Revised(c, t) => answer' = Some(t)]_vars
    /\ [][(Ask /\ pc = "ask") => calls = EmptyBag]_vars
    /\ [](pc \notin Eager => earlier = EmptyBag /\ staleBy = "none")

\* C17 witness: the eager driver sent a second question after a Reset; a
\* verdict on the first question's answer was handled after it and is in
\* votes, although no evaluation has been broadcast since the Reset.
C17_Witness ==
    /\ alive
    /\ pc = EagerPc[3]
    /\ staleBy = "AnswerEvaluation"
    /\ rounds = 0
    /\ current_question # None
    /\ DOMAIN feedback # {}

\* C18: Register changes the registry and nothing else, also in the middle
\* of a round: the round's fields are unchanged and nothing is sent, so no
\* evaluation request for the new responder is pending and it has no vote;
\* a name enters votes only through an evaluation request sent to it; what
\* changes for the round is the registry size the readiness test compares
\* with, so readiness is false once a new name is registered.
C18_RegisterMidRound ==
    /\ [][\A n \in Names : RegisterOf(n) =>
            /\ llm_actors' = llm_actors \cup {n}
            /\ UNCHANGED <<current_question, answer, feedback, evaluation_count, calls>>
            /\ n \notin llm_actors =>
                  /\ n \notin DOMAIN feedback'
                  /\ \A c \in BagToSet(calls') : c.name # n
                  /\ ~AnswerReady(answer', feedback', llm_actors')]_vars
    /\ [][\A n \in Names : (n \notin DOMAIN feedback /\ n \in DOMAIN feedback') =>
            \E c \in BagToSet(calls) :
               /\ c.kind = "EvaluateAnswer"
               /\ c.name = n
               /\ CopiesIn(c, calls') < CopiesIn(c, calls)]_vars

\* C18 witness: the second responder was registered after the only
\* broadcast; the first one's Accept is recorded, nothing is pending and no
\* call failed, and the round is not ready for want of the second vote.
C18_Witness ==
    /\ alive
    /\ llm_actors = {1, 2}
    /\ rounds = 1
    /\ answer # None
    /\ feedback = (1 :> Good)
    /\ calls = EmptyBag
    /\ ~failed

\* C19: under main's driver, once a ReadinessQuery has returned true, the
\* Coordinator is quiescent until Reset, Submit or Register is handled: no
\* call is pending, no step changes its fields, a ReadinessQuery would
\* still return true and FetchAnswer returns the stored answer; and the
\* round's fields return to their initial values only through Reset.
C19_QuiescentAtReady ==
    /\ [](answer_ready =>
            /\ AnswerReady(answer, feedback, llm_actors)
            /\ answer # None
            /\ calls = EmptyBag)
    /\ [][(answer_ready /\ ~Reset /\ ~Ask /\ ~Register) =>
            /\ answer_ready'
            /\ UNCHANGED coord
            /\ calls' = EmptyBag]_vars
    /\ [][(answer_ready /\ GetAnswer) => response' = answer[1]]_vars
    /\ [][(\/ current_question # None /\ current_question' = None
           \/ answer # None /\ answer' = None
           \/ evaluation_count # 0 /\ evaluation_count' = 0
           \/ feedback # <<>> /\ feedback' = <<>> /\ ~HandleAnswerRefinement) => Reset]_vars

\* C19 witness: the answer was ready after a unanimous second round, the
\* driver has fetched it and has not sent Reset yet.
C19_Witness ==
    /\ answer_ready
    /\ pc = "reset"
    /\ rounds = 2
    /\ answer = Some(response)
    /\ calls = EmptyBag
    /\ DOMAIN feedback = llm_actors
    /\ Cardinality(llm_actors) = 2

\* The number of pending calls of the given kinds.
Outstanding(kinds) ==
    BagCardinality([c \in {k \in BagToSet(calls) : k.kind \in kinds} |-> calls[c]])

\* C20: under main's driver (the registry fixed before the first question,
\* one question per Reset) at most one answer or revision request is
\* outstanding at any time, none while an evaluation request is
\* outstanding, and the step that completes a round that is not unanimous
\* sends exactly one revision request.
C20_OneRequestOutstanding ==
    /\ [](Outstanding({"AskQuestion", "RefineAnswer"}) <= 1)
    /\ [](Outstanding({"AskQuestion", "RefineAnswer"}) > 0 =>
             Outstanding({"EvaluateAnswer"}) = 0)
    /\ [][\A c \in BagToSet(calls) : \A r \in UsableTexts :
            (Evaluated(c, r) /\ Rejected(feedback')) =>
               /\ BagCardinality(Sent(c)) = 1
               /\ \A k \in BagToSet(Sent(c)) : k.kind = "RefineAnswer"
               /\ Outstanding({"EvaluateAnswer"}) = 1]_vars

\* C20 witness: the third round was completed with a Reject and the one
\* revision request for it is the only call outstanding.
C20_Witness ==
    /\ alive
    /\ rounds = 3
    /\ Rejected(feedback)
    /\ Outstanding({"RefineAnswer"}) = 1
    /\ InFlight = 1
====
